---- MODULE Spec2Model ----
(***************************************************************************)
(* Authorization core of the ai-job-readiness backend: the signed-token    *)
(* issuer and verifier (app/utils/jwt_utils.py), the expiration-status     *)
(* endpoint (app/api/token_test.py), the request gate                      *)
(* (app/middleware/auth_middleware.py), the role / assignment ledger       *)
(* (app/api/roles.py, app/api/users.py, app/api/auth.py over the tables of *)
(* the initial migration) and the permission check                         *)
(* (app/utils/decorators.py).  Times are unix seconds.                     *)
(***************************************************************************)
EXTENDS Integers, Sequences, FiniteSets, TLC

VARIABLES
    now,            \* unix time of the server clock (datetime.utcnow)
    tz,             \* offset of the server's local time zone from UTC
    ver,            \* last call of verify_access_token / verify_refresh_token
    gate,           \* the request JWTAuthMiddleware.dispatch has just decided
    issued,         \* the token create_access_token / create_refresh_token returned last
    qry,            \* last answer of the expiration-status endpoint
    excluded,       \* JWTAuthMiddleware.excluded_paths of the installed middleware
    users,          \* table users: id -> row
    roles,          \* table roles: id -> row
    roles_seq,      \* SERIAL sequence behind roles.id
    user_roles,     \* table user_roles: set of rows
    user_roles_seq, \* SERIAL sequence behind user_roles.id
    req,            \* per worker: the request being handled and its local variables
    resp,           \* the last response sent, and the request it answers
    started         \* number of requests admitted to a database round trip so far

vars == <<now, tz, ver, gate, issued, qry, excluded, users, roles, roles_seq, user_roles, user_roles_seq, req, resp, started>>

tokenVars == <<ver, gate, issued, qry, excluded>>
ledgerVars == <<users, roles, roles_seq, user_roles, user_roles_seq, req, resp, started>>

----------------------------------------------------------------------------
(* Bounds *)

MaxTime == 3
MaxRequests == 3
MaxTtl == 2

None == "None"

----------------------------------------------------------------------------
(* Tokens.  A token string is either a three-segment JWT or something that *)
(* does not parse.  A JWT is described by the secret that produced its     *)
(* signature and by its payload claims.                                    *)

SecretKey == "secret_key"        \* settings.security.secret_key
UsersSecret == "users_secret"    \* settings.security.users_secret
ForeignKey == "foreign_key"      \* any secret the server does not hold

Subjects == {"u1", "u2"}

TokenTypes == {"access", "refresh", None}

Jwts ==
    [form : {"jwt"}, key : {SecretKey, UsersSecret, ForeignKey},
     type : TokenTypes, exp : 0..MaxTime, sub : Subjects]

Garbage == [form |-> "garbage", key |-> None, type |-> None, exp |-> 0, sub |-> None]

\* the empty string, and Python's None where a token string is expected
EmptyToken == [form |-> "empty", key |-> None, type |-> None, exp |-> 0, sub |-> None]
NoToken == [form |-> "none", key |-> None, type |-> None, exp |-> 0, sub |-> None]

Tokens == Jwts \cup {Garbage}

\* settings.security
access_token_expire_minutes == 60
refresh_token_expire_days == 7

\* timedelta.total_seconds of the two default lifetimes
AccessDefault == access_token_expire_minutes * 60
RefreshDefault == refresh_token_expire_days * 86400

\* str(subject); every caller passes a str, which str() returns as it is
Str(subject) == subject

\* create_access_token with the type claim of a refresh token
create_access_token_mistyped(subject, expires_delta, t) ==
    [form |-> "jwt", key |-> SecretKey, type |-> "refresh",
     exp |-> t + (IF expires_delta # 0 THEN expires_delta ELSE AccessDefault),
     sub |-> Str(subject)]

\* create_access_token at clock reading t: claims exp, sub, type "access",
\* signed with secret_key.  expires_delta is in seconds; 0 stands for both
\* None and timedelta(0), which `if expires_delta:` treats alike.
create_access_token(subject, expires_delta, t) ==
    [form |-> "jwt", key |-> SecretKey, type |-> "access",
     exp |-> t + (IF expires_delta # 0 THEN expires_delta ELSE AccessDefault),
     sub |-> Str(subject)]

\* create_refresh_token at clock reading t: claims exp, sub, type "refresh",
\* signed with users_secret
create_refresh_token(subject, t) ==
    [form |-> "jwt", key |-> UsersSecret, type |-> "refresh", exp |-> t + RefreshDefault,
     sub |-> Str(subject)]

\* jwt.decode that lets a token through at the second of its exp claim
jwt_decode_late(token, key, t) ==
    IF token.form # "jwt" THEN "DecodeError"
    ELSE IF token.key # key THEN "InvalidSignatureError"
    ELSE IF token.exp < t THEN "ExpiredSignatureError"
    ELSE "ok"

\* jwt.decode(token, key, algorithms): parse, then signature, then exp.
\* Returns the exception class raised, or "ok".
jwt_decode(token, key, t) ==
    IF token.form # "jwt" THEN "DecodeError"
    ELSE IF token.key # key THEN "InvalidSignatureError"
    ELSE IF token.exp <= t THEN "ExpiredSignatureError"
    ELSE "ok"

Payload(token) == [sub |-> token.sub, type |-> token.type, exp |-> token.exp]

\* Python's None where a payload dict is expected
NoPayload == [sub |-> None, type |-> None, exp |-> -1]

\* The branch verify_* leaves through: what it returns and what it logs.
VerifyWith(token, key, kind, t) ==
    LET d == jwt_decode(token, key, t) IN
    IF d = "ok"
    THEN IF token.type # kind
         THEN [ret |-> NoPayload, log |-> "invalid_type"]
         ELSE [ret |-> Payload(token), log |-> "ok"]
    ELSE IF d = "ExpiredSignatureError"
         THEN [ret |-> NoPayload, log |-> "expired"]
         ELSE [ret |-> NoPayload, log |-> "invalid"]

\* verify_access_token without the check of the type claim
verify_access_token_untyped(token, t) ==
    LET d == jwt_decode(token, SecretKey, t) IN
    IF d = "ok" THEN [ret |-> Payload(token), log |-> "ok"]
    ELSE IF d = "ExpiredSignatureError" THEN [ret |-> NoPayload, log |-> "expired"]
    ELSE [ret |-> NoPayload, log |-> "invalid"]

verify_access_token(token, t) == VerifyWith(token, SecretKey, "access", t)

verify_refresh_token(token, t) == VerifyWith(token, UsersSecret, "refresh", t)

Verify(kind, token, t) ==
    IF kind = "access" THEN verify_access_token(token, t)
    ELSE verify_refresh_token(token, t)

\* get_token_expiration: decode without verification, exp through
\* datetime.fromtimestamp (server local time); None when exp is falsy
NoTime == [some |-> FALSE, at |-> 0]

get_token_expiration(token, offset) ==
    IF token.form # "jwt" THEN NoTime
    ELSE IF token.exp = 0 THEN NoTime
    ELSE [some |-> TRUE, at |-> token.exp + offset]

\* is_token_expired: datetime.utcnow() >= exp_time, True when there is none
is_token_expired(token, t, offset) ==
    LET e == get_token_expiration(token, offset) IN
    IF e.some THEN t >= e.at ELSE TRUE

\* get_token_remaining_time: exp_time - datetime.utcnow(), floored at
\* timedelta(0); None when there is no exp_time
get_token_remaining_time(token, t, offset) ==
    LET e == get_token_expiration(token, offset) IN
    IF e.some THEN [some |-> TRUE, at |-> IF e.at - t > 0 THEN e.at - t ELSE 0]
    ELSE NoTime

\* validate_token_expiration
validate_token_expiration(token, t, offset) == ~is_token_expired(token, t, offset)

----------------------------------------------------------------------------
(* Request gate *)

\* the default of JWTAuthMiddleware.__init__
excluded_paths ==
  << <<"/">>,
     <<"/","h","e","a","l","t","h">>,
     <<"/","d","o","c","s">>,
     <<"/","r","e","d","o","c">>,
     <<"/","o","p","e","n","a","p","i",".","j","s","o","n">>,
     <<"/","a","p","i","/","v","1","/","a","u","t","h","/","r","e","g","i","s","t","e","r">>,
     <<"/","a","p","i","/","v","1","/","a","u","t","h","/","j","w","t","/","l","o","g","i","n">>,
     <<"/","a","p","i","/","v","1","/","a","u","t","h","/","j","w","t","/","r","e","f","r","e","s","h">>,
     <<"/","a","p","i","/","v","1","/","i","n","f","o">>,
     <<"/","a","p","i","/","v","1","/","p","e","r","f","o","r","m","a","n","c","e">>,
     <<"/","a","p","i","/","v","1","/","c","a","c","h","e","/","s","t","a","t","u","s">> >>

\* a list passed to the constructor by the application
CustomExcluded ==
  << <<"/","h","e","a","l","t","h">>,
     <<"/","a","p","i","/","v","1","/","a","u","t","h","/","j","w","t","/","l","o","g","i","n">> >>

RootPath == <<"/">>
HealthPath == <<"/","h","e","a","l","t","h">>
LoginPath == <<"/","a","p","i","/","v","1","/","a","u","t","h","/","j","w","t","/","l","o","g","i","n">>
RolesAssignPath == <<"/","a","p","i","/","v","1","/","r","o","l","e","s","/","a","s","s","i","g","n">>
UsersProfilePath == <<"/","a","p","i","/","v","1","/","u","s","e","r","s","/","p","r","o","f","i","l","e">>

RequestPaths == {RootPath, HealthPath, LoginPath, RolesAssignPath, UsersProfilePath}

\* str.startswith
StartsWith(s, prefix) ==
    /\ Len(prefix) <= Len(s)
    /\ \A i \in 1..Len(prefix) : s[i] = prefix[i]

\* JWTAuthMiddleware._should_skip_auth
_should_skip_auth(self_excluded, path) ==
    \/ \E i \in 1..Len(self_excluded) : path = self_excluded[i]
    \/ \E i \in 1..Len(self_excluded) : StartsWith(path, self_excluded[i])

\* An Authorization header: absent, or a string.  A string is described by
\* the text before its first space, whether it has a space at all, and the
\* token text after the first space ("" when nothing follows).
NoHeader == [present |-> FALSE, scheme |-> "", space |-> FALSE, rest |-> NoToken]

Schemes == {"Bearer", "bearer", "Basic"}

\* str.lower on the strings that occur
Lower(s) ==
    IF s = "Bearer" THEN "bearer"
    ELSE IF s = "Basic" THEN "basic"
    ELSE IF s = "Editor" THEN "editor"
    ELSE IF s = "ADMIN" THEN "admin"
    ELSE s

Headers ==
    {NoHeader}
    \cup [present : {TRUE}, scheme : Schemes, space : {TRUE}, rest : Tokens \cup {EmptyToken}]
    \cup [present : {TRUE}, scheme : Schemes \cup {""}, space : {FALSE}, rest : {NoToken}]

\* JWTAuthMiddleware._extract_token
_extract_token(header) ==
    IF ~header.present \/ (header.scheme = "" /\ ~header.space) THEN NoToken
    ELSE IF ~header.space THEN NoToken           \* ValueError from the unpacking
    ELSE IF Lower(header.scheme) # "bearer" THEN NoToken
    ELSE header.rest

\* JWTAuthMiddleware._validate_token
_validate_token(token, t) == verify_access_token(token, t).ret # NoPayload

\* the JSON body of a response that create_error_response did not build
NoBody == [success |-> TRUE, message |-> None, errors |-> <<>>]

\* handle_token_error: the table of messages
error_messages(error_type) ==
    CASE error_type = "expired" -> "Access token has expired. Please re-authenticate."
      [] error_type = "invalid" -> "Invalid access token. Please re-authenticate."
      [] error_type = "missing" -> "Access token is required. Please provide a valid token."
      [] error_type = "malformed" -> "Malformed access token. Please re-authenticate."
      [] OTHER -> "Authentication error"

\* create_error_response: ResponseModel(success=False, message, errors)
create_error_response(message, errors, status_code) ==
    [status |-> status_code,
     body |-> [success |-> FALSE, message |-> message, errors |-> errors]]

\* an error response sent with the status create_error_response defaults to
handle_token_error_default_status(error_type) ==
    create_error_response(error_messages(error_type), <<error_type>>, 400)

\* handle_token_error(error_type): every branch sends 401 with [error_type]
handle_token_error(error_type) ==
    create_error_response(error_messages(error_type), <<error_type>>, 401)

NoGate ==
    [path |-> <<>>, header |-> NoHeader, status |-> 0, errors |-> None, body |-> NoBody,
     called_next |-> FALSE, user_id |-> None, validated |-> FALSE, state_attrs |-> {}]

\* return handle_token_error(error_type), as the gate record shows it;
\* errors is the one code of the body's list
Reject(base, error_type) ==
    LET r == handle_token_error(error_type) IN
    [base EXCEPT !.status = r.status, !.errors = r.body.errors[1], !.body = r.body]

\* JWTAuthMiddleware.dispatch; state_attrs are the attributes it sets on
\* request.state.  The clock is read at _validate_token (t1),
\* at validate_token_expiration (t2) and at the last verify_access_token (t3).
Dispatch(self_excluded, path, header, t1, t2, t3, offset) ==
    LET token == _extract_token(header)
        base == [NoGate EXCEPT !.path = path, !.header = header]
    IN
    IF _should_skip_auth(self_excluded, path)
    THEN [base EXCEPT !.status = 200, !.called_next = TRUE]
    ELSE IF token = NoToken \/ token = EmptyToken
    THEN Reject(base, "missing")
    ELSE IF ~_validate_token(token, t1)
    THEN Reject(base, "invalid")
    ELSE IF ~validate_token_expiration(token, t2, offset)
    THEN [Reject(base, "expired") EXCEPT !.validated = TRUE]
    ELSE LET payload == verify_access_token(token, t3).ret IN
         [base EXCEPT !.status = 200, !.called_next = TRUE, !.validated = TRUE,
                      !.user_id = IF payload # NoPayload THEN payload.sub ELSE None,
                      !.state_attrs = IF payload # NoPayload
                                      THEN {"user_id", "token_payload"} ELSE {}]

\* get_expiration_status (app/api/token_test.py).  The token is whatever
\* follows the first space of the header; the clock is read by
\* get_token_remaining_time (t1) and by is_token_expired (t2).
NoQry ==
    [header |-> NoHeader, status |-> 0, errors |-> None, expiration_time |-> NoTime,
     is_expired |-> FALSE, total_seconds |-> 0]

get_expiration_status(header, t1, t2, offset) ==
    LET base == [NoQry EXCEPT !.header = header]
        token == header.rest
        remaining_time == get_token_remaining_time(token, t1, offset)
    IN
    IF ~header.present \/ (header.scheme = "" /\ ~header.space)
    THEN [base EXCEPT !.status = 401, !.errors = "missing"]
    ELSE IF ~header.space \/ token = EmptyToken
    THEN [base EXCEPT !.status = 401, !.errors = "malformed"]
    ELSE [base EXCEPT !.status = 200,
                      !.expiration_time = get_token_expiration(token, offset),
                      !.is_expired = is_token_expired(token, t2, offset),
                      !.total_seconds = remaining_time.at]

----------------------------------------------------------------------------
(* Clock, verifier calls and gate requests *)

NoVer == [kind |-> None, token |-> NoToken, at |-> 0, ret |-> NoPayload, log |-> None]

\* the last create_*_token call: its arguments, the clock reading, the result
NoIssue == [kind |-> None, subject |-> None, expires_delta |-> 0, at |-> 0, token |-> NoToken]

\* expires_delta arguments in seconds: an expiry in the past, none, short ones
ExpiresDeltas == (-1)..MaxTtl

\* a caller runs JWTTokenManager.create_access_token
IssueAccess ==
    \E subject \in Subjects, expires_delta \in ExpiresDeltas :
        /\ issued' = [kind |-> "access", subject |-> subject, expires_delta |-> expires_delta,
                      at |-> now, token |-> create_access_token(subject, expires_delta, now)]
        /\ ver' = NoVer
        /\ UNCHANGED <<now, tz, gate, qry, excluded, ledgerVars>>

\* a caller runs JWTTokenManager.create_refresh_token
IssueRefresh ==
    \E subject \in Subjects :
        /\ issued' = [kind |-> "refresh", subject |-> subject, expires_delta |-> 0,
                      at |-> now, token |-> create_refresh_token(subject, now)]
        /\ ver' = NoVer
        /\ UNCHANGED <<now, tz, gate, qry, excluded, ledgerVars>>

\* the holder of the issued token presents it to a verifier
VerifyIssued ==
    \E kind \in {"access", "refresh"} :
        LET r == Verify(kind, issued.token, now) IN
        /\ issued # NoIssue
        /\ ver' = [kind |-> kind, token |-> issued.token, at |-> now,
                   ret |-> r.ret, log |-> r.log]
        /\ UNCHANGED <<now, tz, gate, issued, qry, excluded, ledgerVars>>

\* a client calls GET /token/expiration-status
ExpirationStatus ==
    \E header \in Headers, d \in 0..1 :
        /\ now + d <= MaxTime
        /\ qry' = get_expiration_status(header, now, now + d, tz)
        /\ now' = now + d
        /\ UNCHANGED <<tz, ver, gate, issued, excluded, ledgerVars>>

TzOffsets == {-1, 0, 1}

\* the server clock advances
Tick ==
    /\ now < MaxTime
    /\ now' = now + 1
    /\ UNCHANGED <<tz, tokenVars, ledgerVars>>

\* a caller runs JWTTokenManager.verify_access_token on some token string
VerifyAccess ==
    \E token \in Tokens :
        LET r == verify_access_token(token, now) IN
        /\ ver' = [kind |-> "access", token |-> token, at |-> now, ret |-> r.ret, log |-> r.log]
        /\ UNCHANGED <<now, tz, gate, issued, qry, excluded, ledgerVars>>

\* a caller runs JWTTokenManager.verify_refresh_token on some token string
VerifyRefresh ==
    \E token \in Tokens :
        LET r == verify_refresh_token(token, now) IN
        /\ ver' = [kind |-> "refresh", token |-> token, at |-> now, ret |-> r.ret, log |-> r.log]
        /\ UNCHANGED <<now, tz, gate, issued, qry, excluded, ledgerVars>>

\* one request passes through JWTAuthMiddleware.dispatch; the clock may
\* advance between the three places that read it
GateRequest ==
    \E path \in RequestPaths, header \in Headers, d1 \in 0..1, d2 \in 0..1 :
        /\ gate = NoGate
        /\ now + d1 + d2 <= MaxTime
        /\ gate' = Dispatch(excluded, path, header, now, now + d1, now + d1 + d2, tz)
        /\ now' = now + d1 + d2
        /\ UNCHANGED <<tz, ver, issued, qry, excluded, ledgerVars>>

----------------------------------------------------------------------------
(* Ledger: tables users, roles, user_roles of the initial migration.       *)
(* Columns that no handler below reads (names, descriptions, created_at,   *)
(* updated_at, profile fields) are left out of the rows.                   *)

UserIds == {"u1", "u2"}
RoleIds == {1, 2}
Workers == {"w1", "w2"}

NoUser == "NoUser"               \* the request carries no current_user object

PermSets == {{"read"}}

\* rows of user_roles that reference the account (User.roles)
UserRoles(u) == {ur \in user_roles : ur.user_id = u}

\* User.has_role: the account holds a role of that name
has_role(u, name) ==
    \E ur \in UserRoles(u) :
        /\ ur.is_active
        /\ ur.role_id \in DOMAIN roles
        /\ roles[ur.role_id].is_active
        /\ roles[ur.role_id].name = name

\* the guard that opens every role-management handler:
\* not current_user.is_superuser and not current_user.has_role("admin")
Denied(caller) == ~users[caller].is_superuser /\ ~has_role(caller, "admin")

\* an account that only its superuser flag makes an administrator
is_admin_flag_only(u) == users[u].is_superuser

\* User.is_admin: the superuser flag, or the admin role
is_admin(u) == users[u].is_superuser \/ has_role(u, "admin")

\* require_permissions: the list the decorator collects from current_user.roles
user_permissions(u) ==
    UNION {roles[ur.role_id].permissions : ur \in {x \in UserRoles(u) : x.role_id \in DOMAIN roles}}

\* require_permissions(*permissions): TRUE when the wrapped endpoint is called
require_permissions(u, permissions) ==
    {perm \in permissions : perm \notin user_permissions(u)} = {}

\* the table without its UNIQUE constraint
UniqueViolation_dropped(rows, u, r) == FALSE

\* UNIQUE (user_id, role_id) of user_roles
UniqueViolation(rows, u, r) == \E ur \in rows : ur.user_id = u /\ ur.role_id = r

\* the table without its foreign keys
ForeignKeyViolation_dropped(u, r) == FALSE

\* FOREIGN KEY (user_id), FOREIGN KEY (role_id) of user_roles
ForeignKeyViolation(u, r) == u \notin DOMAIN users \/ r \notin DOMAIN roles

\* ON DELETE CASCADE of both foreign keys
CascadeRole(rows, r) == {ur \in rows : ur.role_id # r}
\* a cascade that reaches only the assignments still active
CascadeUser_active_only(rows, u) == {ur \in rows : ur.user_id # u \/ ~ur.is_active}

CascadeUser(rows, u) == {ur \in rows : ur.user_id # u}

Restrict(f, S) == [x \in S |-> f[x]]

Idle ==
    [op |-> None, pc |-> "idle", caller |-> None, user_id |-> None, role_id |-> 0,
     assignment_id |-> 0, loaded_active |-> FALSE, name |-> None, email |-> None,
     current_password |-> None, new_password |-> None,
     update_data |-> [has_is_active |-> FALSE, is_active |-> FALSE,
                      has_permissions |-> FALSE, permissions |-> {}]]

NoResp == [status |-> 0, detail |-> None, op |-> None, caller |-> None]

Callers == DOMAIN users \cup {NoUser}

\* the response to request r is sent and the worker is free again
Respond(w, r, status, detail) ==
    /\ resp' = [status |-> status, detail |-> detail, op |-> r.op, caller |-> r.caller]
    /\ req' = [req EXCEPT ![w] = Idle]

\* the handler goes on to its next database round trip
Continue(w, r) ==
    /\ req' = [req EXCEPT ![w] = r]
    /\ resp' = NoResp

\* Workers are interchangeable: the second one takes a request only while
\* the first is busy.
CanStart(w) ==
    /\ req[w].pc = "idle"
    /\ started < MaxRequests
    /\ w = "w2" => req["w1"].pc # "idle"

\* a request answered in its first step, or admitted
Answer(w, r, status, detail) ==
    /\ Respond(w, r, status, detail)
    /\ UNCHANGED started

Admit(w, r) ==
    /\ Continue(w, r)
    /\ started' = started + 1

\* what the permission guard does to a request before any query runs
Guard(w, r) ==
    IF r.caller = NoUser THEN Answer(w, r, 500, "AttributeError")
    ELSE Answer(w, r, 403, "Insufficient permissions")

Passes(caller) == caller # NoUser /\ ~Denied(caller)

----------------------------------------------------------------------------
(* assign_role_to_user: one action per database round trip.  Request bodies  *)
(* leave assigned_by unset, so the row records current_user.id.              *)

\* the handler without its look at the users table
AssignRequest_unchecked(w, caller, u, r) ==
    LET r0 == [Idle EXCEPT !.op = "assign", !.pc = "assign_role",
                           !.caller = caller, !.user_id = u, !.role_id = r] IN
    /\ CanStart(w)
    /\ IF ~Passes(caller) THEN Guard(w, r0) ELSE Admit(w, r0)
    /\ UNCHANGED <<now, tz, tokenVars, roles_seq, users, roles, user_roles, user_roles_seq>>

\* permission guard, then SELECT users WHERE id = user_id
AssignRequest(w, caller, u, r) ==
    LET r0 == [Idle EXCEPT !.op = "assign", !.pc = "assign_role",
                           !.caller = caller, !.user_id = u, !.role_id = r] IN
    /\ CanStart(w)
    /\ IF ~Passes(caller) THEN Guard(w, r0)
       ELSE IF u \notin DOMAIN users THEN Answer(w, r0, 404, "User not found")
       ELSE Admit(w, r0)
    /\ UNCHANGED <<now, tz, tokenVars, roles_seq, users, roles, user_roles, user_roles_seq>>

\* POST /roles/assign with any caller and any body
AssignStart(w) ==
    \E caller \in Callers, u \in UserIds, r \in RoleIds : AssignRequest(w, caller, u, r)

\* SELECT roles WHERE id = role_id; the role must exist and be active
AssignLoadRole(w) ==
    /\ req[w].pc = "assign_role"
    /\ IF req[w].role_id \notin DOMAIN roles THEN Respond(w, req[w], 404, "Role not found")
       ELSE IF ~roles[req[w].role_id].is_active
       THEN Respond(w, req[w], 400, "Cannot assign inactive role")
       ELSE Continue(w, [req[w] EXCEPT !.pc = "assign_existing"])
    /\ UNCHANGED <<now, tz, tokenVars, roles_seq, users, roles, user_roles, user_roles_seq, started>>

\* the query with its is_active condition inverted
existing_assignment_inactive(u, r) ==
    {ur \in user_roles : ur.user_id = u /\ ur.role_id = r /\ ~ur.is_active}

\* SELECT user_roles WHERE user_id, role_id, is_active == True
existing_assignment(u, r) ==
    {ur \in user_roles : ur.user_id = u /\ ur.role_id = r /\ ur.is_active}

AssignCheckExisting(w) ==
    LET existing == existing_assignment(req[w].user_id, req[w].role_id) IN
    /\ req[w].pc = "assign_existing"
    /\ IF Cardinality(existing) > 1 THEN Respond(w, req[w], 500, "MultipleResultsFound")
       ELSE IF existing # {} THEN Respond(w, req[w], 400, "User already has this role assigned")
       ELSE Continue(w, [req[w] EXCEPT !.pc = "assign_commit"])
    /\ UNCHANGED <<now, tz, tokenVars, roles_seq, users, roles, user_roles, user_roles_seq, started>>

\* db.add(UserRole(...)); db.commit(): INSERT under the table's constraints.
\* The sequence value is consumed whether or not the INSERT succeeds.
AssignCommit(w) ==
    LET u == req[w].user_id
        r == req[w].role_id
        row == [id |-> user_roles_seq, user_id |-> u, role_id |-> r,
                assigned_by |-> req[w].caller, assigned_at |-> now, is_active |-> TRUE]
    IN
    /\ req[w].pc = "assign_commit"
    /\ user_roles_seq' = user_roles_seq + 1
    /\ IF ForeignKeyViolation(u, r) \/ UniqueViolation(user_roles, u, r)
       THEN /\ Respond(w, req[w], 500, "IntegrityError")
            /\ UNCHANGED user_roles
       ELSE /\ Respond(w, req[w], 200, "Role assigned")
            /\ user_roles' = user_roles \cup {row}
    /\ UNCHANGED <<now, tz, tokenVars, roles_seq, users, roles, started>>

----------------------------------------------------------------------------
(* remove_role_from_user *)

\* permission guard, then SELECT user_roles WHERE id = assignment_id
RemoveStart(w) ==
    \E caller \in Callers, id \in 1..(user_roles_seq - 1) :
        LET found == {ur \in user_roles : ur.id = id}
            r0 == [Idle EXCEPT !.op = "remove", !.pc = "remove_commit",
                               !.caller = caller, !.assignment_id = id]
        IN
        /\ CanStart(w)
        /\ IF ~Passes(caller) THEN Guard(w, r0)
           ELSE IF found = {} THEN Answer(w, r0, 404, "Role assignment not found")
           ELSE Admit(w, [r0 EXCEPT !.loaded_active = (CHOOSE ur \in found : TRUE).is_active])
        /\ UNCHANGED <<now, tz, tokenVars, roles_seq, users, roles, user_roles, user_roles_seq>>

\* a DELETE in place of the UPDATE
Deactivate_delete(rows, id) == {ur \in rows : ur.id # id}

\* UPDATE user_roles SET is_active = false WHERE id = assignment_id
Deactivate(rows, id) ==
    {IF ur.id = id THEN [ur EXCEPT !.is_active = FALSE] ELSE ur : ur \in rows}

\* assignment.is_active = False; db.commit().  The unit of work emits an
\* UPDATE only when the attribute changed, and the UPDATE must match the row.
RemoveCommit(w) ==
    LET id == req[w].assignment_id IN
    /\ req[w].pc = "remove_commit"
    /\ IF ~req[w].loaded_active
       THEN /\ Respond(w, req[w], 200, "Role assignment removed")
            /\ UNCHANGED user_roles
       ELSE IF ~\E ur \in user_roles : ur.id = id
       THEN /\ Respond(w, req[w], 500, "StaleDataError")
            /\ UNCHANGED user_roles
       ELSE /\ Respond(w, req[w], 200, "Role assignment removed")
            /\ user_roles' = Deactivate(user_roles, id)
    /\ UNCHANGED <<now, tz, tokenVars, roles_seq, users, roles, user_roles_seq, started>>

----------------------------------------------------------------------------
(* delete_role *)

\* permission guard, then SELECT roles WHERE id = role_id
DeleteRoleStart(w) ==
    \E caller \in Callers, r \in RoleIds :
        LET r0 == [Idle EXCEPT !.op = "delete_role", !.pc = "delete_role_count",
                               !.caller = caller, !.role_id = r] IN
        /\ CanStart(w)
        /\ IF ~Passes(caller) THEN Guard(w, r0)
           ELSE IF r \notin DOMAIN roles THEN Answer(w, r0, 404, "Role not found")
           ELSE Admit(w, r0)
        /\ UNCHANGED <<now, tz, tokenVars, roles_seq, users, roles, user_roles, user_roles_seq>>

\* the count restricted to assignments that were removed
user_roles_count_inactive(r) ==
    Cardinality({ur \in user_roles : ur.role_id = r /\ ~ur.is_active})

\* SELECT count(user_roles.id) WHERE role_id = role_id
user_roles_count(r) == Cardinality({ur \in user_roles : ur.role_id = r})

DeleteRoleCount(w) ==
    /\ req[w].pc = "delete_role_count"
    /\ IF user_roles_count(req[w].role_id) > 0
       THEN Respond(w, req[w], 400, "Cannot delete role that is assigned to users")
       ELSE Continue(w, [req[w] EXCEPT !.pc = "delete_role_commit"])
    /\ UNCHANGED <<now, tz, tokenVars, roles_seq, users, roles, user_roles, user_roles_seq, started>>

\* db.delete(role); db.commit(): DELETE FROM roles, cascading to user_roles
DeleteRoleCommit(w) ==
    LET r == req[w].role_id IN
    /\ req[w].pc = "delete_role_commit"
    /\ roles' = Restrict(roles, DOMAIN roles \ {r})
    /\ user_roles' = CascadeRole(user_roles, r)
    /\ Respond(w, req[w], 200, "Role deleted")
    /\ UNCHANGED <<now, tz, tokenVars, roles_seq, users, user_roles_seq, started>>

----------------------------------------------------------------------------
(* update_role, for request bodies that set is_active or permissions *)

UpdateBodies ==
    [has_is_active : {TRUE}, is_active : BOOLEAN, has_permissions : {FALSE}, permissions : {{}}]
    \cup [has_is_active : {FALSE}, is_active : {FALSE},
          has_permissions : {TRUE}, permissions : PermSets]

\* permission guard, then SELECT roles WHERE id = role_id
UpdateRoleStart(w) ==
    \E caller \in Callers, r \in RoleIds, body \in UpdateBodies :
        LET r0 == [Idle EXCEPT !.op = "update_role", !.pc = "update_role_commit",
                               !.caller = caller, !.role_id = r, !.update_data = body] IN
        /\ CanStart(w)
        /\ IF ~Passes(caller) THEN Guard(w, r0)
           ELSE IF r \notin DOMAIN roles THEN Answer(w, r0, 404, "Role not found")
           ELSE Admit(w, r0)
        /\ UNCHANGED <<now, tz, tokenVars, roles_seq, users, roles, user_roles, user_roles_seq>>

\* a setter that adds the list to what the role already has
set_permissions_list_merge(role, permissions) ==
    [role EXCEPT !.permissions = @ \cup permissions]

\* Role.set_permissions_list: the stored list becomes the list given
set_permissions_list(role, permissions) ==
    [role EXCEPT !.permissions = permissions]

\* the loop over role_data.dict(exclude_unset=True)
ApplyUpdate(role, body) ==
    [role EXCEPT !.permissions = IF body.has_permissions
                                 THEN set_permissions_list(role, body.permissions).permissions
                                 ELSE @,
                 !.is_active = IF body.has_is_active THEN body.is_active ELSE @]

\* db.commit(): UPDATE roles WHERE id = role_id, which must match the row
UpdateRoleCommit(w) ==
    LET r == req[w].role_id IN
    /\ req[w].pc = "update_role_commit"
    /\ IF r \notin DOMAIN roles
       THEN /\ Respond(w, req[w], 500, "StaleDataError")
            /\ UNCHANGED roles
       ELSE /\ Respond(w, req[w], 200, "Role updated")
            /\ roles' = [roles EXCEPT ![r] = ApplyUpdate(@, req[w].update_data)]
    /\ UNCHANGED <<now, tz, tokenVars, roles_seq, users, user_roles, user_roles_seq, started>>

----------------------------------------------------------------------------
(* create_role *)

\* role names as they arrive in a request body
RawNames == {"editor", "Editor", "ADMIN", "viewer", "bad name"}

\* RoleBase.validate_name: the character check, then v.lower()
name_is_valid(v) == v # "bad name"

\* the validator without its lower()
validate_name_verbatim(v) == v

validate_name(v) == Lower(v)

\* UNIQUE (name) of roles, for a row other than the one with this id
NameTaken(name, except_id) ==
    \E id \in DOMAIN roles : id # except_id /\ roles[id].name = name

\* the body is validated and the dependencies are resolved, then the
\* permission guard
CreateRoleStart(w) ==
    \E caller \in Callers, raw \in RawNames :
        LET r0 == [Idle EXCEPT !.op = "create_role", !.pc = "create_role_check",
                               !.caller = caller, !.name = validate_name(raw)] IN
        /\ CanStart(w)
        /\ IF ~name_is_valid(raw) THEN Answer(w, r0, 422, "Role name must contain only alphanumeric characters")
           ELSE IF ~Passes(caller) THEN Guard(w, r0)
           ELSE Admit(w, r0)
        /\ UNCHANGED <<now, tz, tokenVars, roles_seq, users, roles, user_roles, user_roles_seq>>

\* SELECT roles WHERE name = role_data.name
CreateRoleCheck(w) ==
    /\ req[w].pc = "create_role_check"
    /\ IF NameTaken(req[w].name, 0) THEN Respond(w, req[w], 400, "Role already exists")
       ELSE Continue(w, [req[w] EXCEPT !.pc = "create_role_commit"])
    /\ UNCHANGED <<now, tz, tokenVars, roles_seq, users, roles, user_roles, user_roles_seq, started>>

\* db.add(role); db.commit(): INSERT under UNIQUE (name).  The body leaves
\* permissions and is_active at their defaults.  The sequence value is
\* consumed whether or not the INSERT succeeds.
CreateRoleCommit(w) ==
    LET row == [name |-> req[w].name, permissions |-> {}, is_active |-> TRUE] IN
    /\ req[w].pc = "create_role_commit"
    /\ roles_seq' = roles_seq + 1
    /\ IF NameTaken(req[w].name, 0)
       THEN /\ Respond(w, req[w], 500, "IntegrityError")
            /\ UNCHANGED roles
       ELSE /\ Respond(w, req[w], 201, "Role created")
            /\ roles' = [id \in DOMAIN roles \cup {roles_seq} |->
                           IF id = roles_seq THEN row ELSE roles[id]]
    /\ UNCHANGED <<now, tz, tokenVars, users, user_roles, user_roles_seq, started>>

----------------------------------------------------------------------------
(* update_role, for request bodies that set name *)

\* the body is validated, then the permission guard, then
\* SELECT roles WHERE id = role_id; a name equal to the role's own skips
\* the query for a conflicting role
RenameRoleStart(w) ==
    \E caller \in Callers, r \in 1..(roles_seq - 1), raw \in RawNames :
        LET r0 == [Idle EXCEPT !.op = "update_role", !.pc = "rename_role_check",
                               !.caller = caller, !.role_id = r, !.name = validate_name(raw)] IN
        /\ CanStart(w)
        /\ IF ~name_is_valid(raw) THEN Answer(w, r0, 422, "Role name must contain only alphanumeric characters")
           ELSE IF ~Passes(caller) THEN Guard(w, r0)
           ELSE IF r \notin DOMAIN roles THEN Answer(w, r0, 404, "Role not found")
           ELSE IF r0.name = roles[r].name THEN Admit(w, [r0 EXCEPT !.pc = "rename_role_commit"])
           ELSE Admit(w, r0)
        /\ UNCHANGED <<now, tz, tokenVars, roles_seq, users, roles, user_roles, user_roles_seq>>

\* SELECT roles WHERE name = role_data.name
RenameRoleCheck(w) ==
    /\ req[w].pc = "rename_role_check"
    /\ IF NameTaken(req[w].name, 0) THEN Respond(w, req[w], 400, "Role already exists")
       ELSE Continue(w, [req[w] EXCEPT !.pc = "rename_role_commit"])
    /\ UNCHANGED <<now, tz, tokenVars, roles_seq, users, roles, user_roles, user_roles_seq, started>>

\* db.commit(): UPDATE roles SET name WHERE id = role_id under UNIQUE (name)
RenameRoleCommit(w) ==
    LET r == req[w].role_id IN
    /\ req[w].pc = "rename_role_commit"
    /\ IF r \notin DOMAIN roles
       THEN /\ Respond(w, req[w], 500, "StaleDataError")
            /\ UNCHANGED roles
       ELSE IF NameTaken(req[w].name, r)
       THEN /\ Respond(w, req[w], 500, "IntegrityError")
            /\ UNCHANGED roles
       ELSE /\ Respond(w, req[w], 200, "Role updated")
            /\ roles' = [roles EXCEPT ![r].name = req[w].name]
    /\ UNCHANGED <<now, tz, tokenVars, roles_seq, users, user_roles, user_roles_seq, started>>

----------------------------------------------------------------------------
(* register_user (app/api/auth.py), for bodies that pass validation *)

Emails == {"user@example.com", "new@example.com"}

\* passwords that pass validate_password; accounts start with the first
Passwords == {"Passw0rd1", "Secret22"}
SeedPassword == "Passw0rd1"

\* the value of the hashed_password column when it holds the string s itself
AsStored(s) == [bcrypt |-> FALSE, text |-> s]

\* get_password_hash: pwd_context.hash(password), a bcrypt hash of it
get_password_hash(password) == [bcrypt |-> TRUE, text |-> password]

\* verify_password: pwd_context.verify(plain_password, hashed_password)
verify_password(plain_password, hashed_password) ==
    hashed_password.bcrypt /\ hashed_password.text = plain_password

\* the id uuid4 draws for the account registered under an email address
UuidFor(email) == IF email = "new@example.com" THEN "u3" ELSE "u4"

\* UNIQUE (email) of users
EmailTaken(email) == \E u \in DOMAIN users : users[u].email = email

\* user_manager.get_by_email in the handler: its HTTPException for an
\* existing account and the UserNotExists of a free address are both
\* caught by the `except Exception: pass` around it
RegisterStart(w) ==
    \E email \in Emails :
        LET r0 == [Idle EXCEPT !.op = "register", !.pc = "register_check", !.email = email,
                               !.new_password = SeedPassword] IN
        /\ CanStart(w)
        /\ Admit(w, r0)
        /\ UNCHANGED <<now, tz, tokenVars, roles_seq, users, roles, user_roles, user_roles_seq>>

\* user_manager.create: get_by_email again; UserAlreadyExists ends in the
\* handler's `except Exception`
RegisterCheck(w) ==
    /\ req[w].pc = "register_check"
    /\ IF EmailTaken(req[w].email)
       THEN Respond(w, req[w], 500, "Registration failed: UserAlreadyExists")
       ELSE Continue(w, [req[w] EXCEPT !.pc = "register_commit"])
    /\ UNCHANGED <<now, tz, tokenVars, roles_seq, users, roles, user_roles, user_roles_seq, started>>

\* user_db.create: INSERT INTO users under UNIQUE (email)
RegisterCommit(w) ==
    LET id == UuidFor(req[w].email)
        row == [email |-> req[w].email, is_superuser |-> FALSE,
                hashed_password |-> get_password_hash(req[w].new_password)]
    IN
    /\ req[w].pc = "register_commit"
    /\ IF EmailTaken(req[w].email)
       THEN /\ Respond(w, req[w], 500, "Registration failed: IntegrityError")
            /\ UNCHANGED users
       ELSE /\ Respond(w, req[w], 200, "User registered")
            /\ users' = [u \in DOMAIN users \cup {id} |-> IF u = id THEN row ELSE users[u]]
    /\ UNCHANGED <<now, tz, tokenVars, roles_seq, roles, user_roles, user_roles_seq, started>>

----------------------------------------------------------------------------
(* delete_user (app/api/users.py), guarded by current_superuser *)

\* the dependency, the self-deletion check, then user_manager.get(user_id)
DeleteUserStart(w) ==
    \E caller \in Callers, u \in UserIds :
        LET r0 == [Idle EXCEPT !.op = "delete_user", !.pc = "delete_user_commit",
                               !.caller = caller, !.user_id = u] IN
        /\ CanStart(w)
        /\ IF caller = NoUser THEN Answer(w, r0, 401, "Unauthorized")
           ELSE IF ~users[caller].is_superuser THEN Answer(w, r0, 403, "Forbidden")
           ELSE IF u = caller THEN Answer(w, r0, 400, "Cannot delete your own account")
           ELSE IF u \notin DOMAIN users THEN Answer(w, r0, 500, "Failed to delete user")
           ELSE Admit(w, r0)
        /\ UNCHANGED <<now, tz, tokenVars, roles_seq, users, roles, user_roles, user_roles_seq>>

\* user_manager.delete(user): DELETE FROM users, cascading to user_roles
DeleteUserCommit(w) ==
    LET u == req[w].user_id IN
    /\ req[w].pc = "delete_user_commit"
    /\ users' = Restrict(users, DOMAIN users \ {u})
    /\ user_roles' = CascadeUser(user_roles, u)
    /\ Respond(w, req[w], 200, "User deleted")
    /\ UNCHANGED <<now, tz, tokenVars, roles_seq, roles, user_roles_seq, started>>

----------------------------------------------------------------------------
(* change_password (app/api/users.py) and confirm_password_reset           *)
(* (app/api/auth.py), for bodies that pass validation.  user_manager.update *)
(* is taken as the handlers use it: it writes the given columns of the row. *)

\* current_active_user, then password_helper.verify on the current password;
\* a stored value that is no hash makes the verification raise
ChangePasswordStart(w) ==
    \E u \in DOMAIN users, cur \in Passwords, new \in Passwords :
        LET r0 == [Idle EXCEPT !.op = "change_password", !.pc = "change_password_commit",
                               !.caller = u, !.user_id = u,
                               !.current_password = cur, !.new_password = new] IN
        /\ CanStart(w)
        /\ IF ~users[u].hashed_password.bcrypt
           THEN Answer(w, r0, 500, "Failed to change password")
           ELSE IF ~verify_password(cur, users[u].hashed_password)
           THEN Answer(w, r0, 400, "Current password is incorrect")
           ELSE Admit(w, r0)
        /\ UNCHANGED <<now, tz, tokenVars, roles_seq, users, roles, user_roles, user_roles_seq>>

\* user_manager.update(current_user, {"hashed_password": new_password})
ChangePasswordCommit(w) ==
    LET u == req[w].user_id IN
    /\ req[w].pc = "change_password_commit"
    /\ IF u \notin DOMAIN users
       THEN /\ Respond(w, req[w], 500, "Failed to change password")
            /\ UNCHANGED users
       ELSE /\ Respond(w, req[w], 200, "Password changed successfully")
            /\ users' = [users EXCEPT ![u].hashed_password = AsStored(req[w].new_password)]
    /\ UNCHANGED <<now, tz, tokenVars, roles_seq, roles, user_roles, user_roles_seq, started>>

\* what verify_password_reset_token returns for the token of a request
ResetSubjects == Emails \cup {None}

\* verify_password_reset_token, then user_manager.get_by_email, which raises
\* UserNotExists for an address that is not on file
ConfirmResetStart(w) ==
    \E email \in ResetSubjects, new \in Passwords :
        LET found == {u \in DOMAIN users : users[u].email = email}
            r0 == [Idle EXCEPT !.op = "confirm_password_reset", !.pc = "confirm_reset_commit",
                               !.email = email, !.new_password = new]
        IN
        /\ CanStart(w)
        /\ IF email = None THEN Answer(w, r0, 400, "Invalid or expired reset token")
           ELSE IF found = {} THEN Answer(w, r0, 500, "Failed to reset password")
           ELSE Admit(w, [r0 EXCEPT !.user_id = CHOOSE u \in found : TRUE])
        /\ UNCHANGED <<now, tz, tokenVars, roles_seq, users, roles, user_roles, user_roles_seq>>

\* hashed_password = get_password_hash(new_password);
\* user_manager.update(user, {"hashed_password": hashed_password})
ConfirmResetCommit(w) ==
    LET u == req[w].user_id IN
    /\ req[w].pc = "confirm_reset_commit"
    /\ IF u \notin DOMAIN users
       THEN /\ Respond(w, req[w], 500, "Failed to reset password")
            /\ UNCHANGED users
       ELSE /\ Respond(w, req[w], 200, "Password has been reset successfully")
            /\ users' = [users EXCEPT
                            ![u].hashed_password = get_password_hash(req[w].new_password)]
    /\ UNCHANGED <<now, tz, tokenVars, roles_seq, roles, user_roles, user_roles_seq, started>>

----------------------------------------------------------------------------
(* Specifications *)

InitTables ==
    /\ users = [u \in UserIds |-> [email |-> IF u = "u1" THEN "root@example.com"
                                               ELSE "user@example.com",
                                    is_superuser |-> (u = "u1"),
                                    hashed_password |-> get_password_hash(SeedPassword)]]
    /\ roles = [r \in RoleIds |->
                  IF r = 1
                  THEN [name |-> "editor", permissions |-> {"read", "write"}, is_active |-> TRUE]
                  ELSE [name |-> "admin", permissions |-> {"write", "delete"}, is_active |-> TRUE]]
    /\ roles_seq = 3
    /\ user_roles = {}
    /\ user_roles_seq = 1
    /\ req = [w \in Workers |-> Idle]
    /\ resp = NoResp
    /\ started = 0

Init ==
    /\ now = 0
    /\ tz \in TzOffsets
    /\ ver = NoVer
    /\ gate = NoGate
    /\ issued = NoIssue
    /\ qry = NoQry
    /\ excluded \in {excluded_paths, CustomExcluded}
    /\ InitTables

\* the response (the handler's, or the gate's 401) leaves the middleware
GateReturn ==
    /\ gate # NoGate
    /\ gate' = NoGate
    /\ UNCHANGED <<now, tz, ver, issued, qry, excluded, ledgerVars>>

\* the verifier on its own
NextToken == Tick \/ VerifyAccess \/ VerifyRefresh

SpecToken == Init /\ [][NextToken]_vars

\* tokens issued by the server and presented back to it
NextIssue == Tick \/ IssueAccess \/ IssueRefresh \/ VerifyIssued

SpecIssue == Init /\ [][NextIssue]_vars

\* the expiration-status endpoint on its own
NextQuery == Tick \/ ExpirationStatus

SpecQuery == Init /\ [][NextQuery]_vars

\* the request gate on its own
NextGate == Tick \/ GateRequest \/ GateReturn

SpecGate == Init /\ [][NextGate]_vars

\* the ledger: two workers serving role-management requests concurrently
InitLedger ==
    /\ now = 0
    /\ tz = 0
    /\ ver = NoVer
    /\ gate = NoGate
    /\ issued = NoIssue
    /\ qry = NoQry
    /\ excluded = excluded_paths
    /\ InitTables

NextLedger ==
    \E w \in Workers :
        \/ AssignStart(w) \/ AssignLoadRole(w) \/ AssignCheckExisting(w) \/ AssignCommit(w)
        \/ RemoveStart(w) \/ RemoveCommit(w)
        \/ DeleteRoleStart(w) \/ DeleteRoleCount(w) \/ DeleteRoleCommit(w)
        \/ UpdateRoleStart(w) \/ UpdateRoleCommit(w)
        \/ DeleteUserStart(w) \/ DeleteUserCommit(w)

SpecLedger == InitLedger /\ [][NextLedger]_vars

\* the two handlers that set a password
NextPassword ==
    \E w \in Workers :
        \/ ChangePasswordStart(w) \/ ChangePasswordCommit(w)
        \/ ConfirmResetStart(w) \/ ConfirmResetCommit(w)

SpecPassword == InitLedger /\ [][NextPassword]_vars

\* the three operations that insert under a uniqueness constraint
NextStorage ==
    \E w \in Workers :
        \/ AssignStart(w) \/ AssignLoadRole(w) \/ AssignCheckExisting(w) \/ AssignCommit(w)
        \/ CreateRoleStart(w) \/ CreateRoleCheck(w) \/ CreateRoleCommit(w)
        \/ RegisterStart(w) \/ RegisterCheck(w) \/ RegisterCommit(w)

SpecStorage == InitLedger /\ [][NextStorage]_vars

\* the roles table: creating and renaming roles
NextRoles ==
    \E w \in Workers :
        \/ CreateRoleStart(w) \/ CreateRoleCheck(w) \/ CreateRoleCommit(w)
        \/ RenameRoleStart(w) \/ RenameRoleCheck(w) \/ RenameRoleCommit(w)

SpecRoles == InitLedger /\ [][NextRoles]_vars

----------------------------------------------------------------------------
(* Request gate and token verifier: properties *)

\* the path is on the allow-list: the root page, or under one of the listed
\* public prefixes
MatchesAllowList(self_excluded, path) ==
    \/ path = RootPath /\ \E i \in 1..Len(self_excluded) : self_excluded[i] = RootPath
    \/ \E i \in 1..Len(self_excluded) :
          self_excluded[i] # RootPath /\ StartsWith(path, self_excluded[i])

\* C1: the gate hands a request to the downstream handler without a token
\* check only if its path is on the allow-list; for every other path the
\* handler runs only after the bearer token verified as a valid access token.
C1_HandlerOnlyBehindGate ==
    gate.called_next => (MatchesAllowList(excluded, gate.path) \/ gate.validated)

KeyFor(kind) == IF kind = "access" THEN SecretKey ELSE UsersSecret

\* the outcome the token contract assigns to a verification
ContractOutcome(kind, token, t) ==
    IF token.form # "jwt" \/ token.key # KeyFor(kind) \/ token.type # kind THEN "Invalid"
    ELSE IF token.exp <= t THEN "Expired"
    ELSE "Valid"

\* C2: verify yields exactly one of Valid, Invalid, Expired; an expired but
\* correctly signed token of the right kind is never reported with the same
\* outcome as a forged or malformed one.
C2_ExpiredDistinctFromInvalid ==
    (ver.kind # None /\ ContractOutcome(ver.kind, ver.token, ver.at) = "Expired")
        => \A other \in Tokens :
              ContractOutcome(ver.kind, other, ver.at) = "Invalid"
                  => Verify(ver.kind, other, ver.at).ret # ver.ret

\* C3: access verification never accepts a token whose type claim is
\* "refresh" or that was signed with the refresh secret, refresh verification
\* never accepts one whose type claim is "access" or that was signed with the
\* access secret; while unexpired, such a token leaves through an invalid
\* branch, not the expired one.
C3_KindsAreSeparate ==
    /\ (ver.kind = "access" /\ (ver.token.type = "refresh" \/ ver.token.key = UsersSecret))
          => /\ ver.ret = NoPayload
             /\ ver.token.exp > ver.at => ver.log \in {"invalid", "invalid_type"}
    /\ (ver.kind = "refresh" /\ (ver.token.type = "access" \/ ver.token.key = SecretKey))
          => /\ ver.ret = NoPayload
             /\ ver.token.exp > ver.at => ver.log \in {"invalid", "invalid_type"}

\* an unexpired token with the access signature and type "refresh" was
\* presented to access verification and rejected
C3_Witness ==
    /\ ver.kind = "access"
    /\ ver.token.key = SecretKey
    /\ ver.token.type = "refresh"
    /\ ver.token.exp > ver.at
    /\ ver.ret = NoPayload

\* C11: on a path the gate checks, a bearer token signed with the access
\* secret and of type access but past its expiry is rejected with the
\* "expired" error, and a token that fails the signature or the type check
\* is rejected with the "invalid" error.
C11_GateExpiredVersusInvalid ==
    [][LET token == _extract_token(gate'.header) IN
       (gate = NoGate /\ gate' # NoGate /\ ~_should_skip_auth(excluded, gate'.path)
          /\ token \in Tokens)
           => /\ (token.form = "jwt" /\ token.key = SecretKey /\ token.type = "access"
                    /\ token.exp <= now)
                  => (gate'.status = 401 /\ gate'.errors = "expired")
              /\ (token.form # "jwt" \/ token.key # SecretKey \/ token.type # "access")
                  => (gate'.status = 401 /\ gate'.errors = "invalid")]_vars

\* C12: on a path the gate checks, the "missing" error answers only a
\* request without an Authorization header; a header with another scheme
\* than bearer, or one that does not split into scheme and token, is
\* answered with the "malformed" error.
C12_MissingVersusMalformed ==
    (gate # NoGate /\ ~_should_skip_auth(excluded, gate.path))
        => /\ gate.errors = "missing" => ~gate.header.present
           /\ (gate.header.present /\ gate.header.scheme # ""
                 /\ (~gate.header.space \/ Lower(gate.header.scheme) # "bearer"))
               => (gate.status = 401 /\ gate.errors = "malformed")

\* C13: for a token whose signature the server cannot verify, the
\* expiration time the status endpoint reports does not depend on the
\* token's exp claim.
C13_NoUnverifiedExpiry ==
    (qry.status = 200 /\ qry.header.rest.form = "jwt" /\ qry.header.rest.key = ForeignKey)
        => \A e \in 0..MaxTime :
              get_expiration_status([qry.header EXCEPT !.rest.exp = e], now, now, tz).expiration_time
                  = qry.expiration_time

\* C14: an access token issued at t0 with a lifetime of ttl seconds takes
\* the valid branch of verification at every time before t0 + ttl and the
\* expired branch at every time from t0 + ttl on; once it has verified as
\* expired, no later verification of it is valid.
C14_ValidThenExpired ==
    /\ [](  (issued.kind = "access" /\ issued.expires_delta > 0 /\ ver.kind = "access")
              => IF ver.at < issued.at + issued.expires_delta
                 THEN ver.log = "ok" /\ ver.ret # NoPayload
                 ELSE ver.log = "expired" /\ ver.ret = NoPayload)
    /\ [][(issued.kind = "access" /\ issued' = issued /\ ver.kind = "access"
              /\ ver'.kind = "access" /\ ver.log = "expired")
             => (ver'.log = "expired" /\ ver'.ret = NoPayload)]_vars

\* a token issued with a positive lifetime was verified at the very second
\* its lifetime ended
C14_Witness ==
    /\ issued.kind = "access"
    /\ issued.expires_delta > 0
    /\ ver.kind = "access"
    /\ ver.at = issued.at + issued.expires_delta
    /\ ver.log = "expired"

\* C15: verifying an access token at the clock reading it was issued at,
\* with the default lifetime or a positive one, succeeds and returns the
\* subject it was issued for.
C15_IssueVerifyRoundTrip ==
    (issued.kind = "access" /\ issued.expires_delta >= 0
       /\ ver.kind = "access" /\ ver.at = issued.at)
        => /\ ver.log = "ok"
           /\ ver.ret # NoPayload
           /\ ver.ret.sub = issued.subject

\* an access token was issued and verified at once
C15_Witness ==
    /\ issued.kind = "access"
    /\ issued.expires_delta >= 0
    /\ ver.kind = "access"
    /\ ver.at = issued.at
    /\ ver.ret.sub = issued.subject

----------------------------------------------------------------------------
(* Ledger: properties *)

RowsOf(rows, u, r) == {ur \in rows : ur.user_id = u /\ ur.role_id = r}

ActiveRowsOf(rows, u, r) == {ur \in RowsOf(rows, u, r) : ur.is_active}

\* worker w takes the step that leaves program point pc
Leaves(w, pc) == req[w].pc = pc /\ req'[w].pc # pc

TablesUnchanged == UNCHANGED <<users, roles, user_roles>>

\* C4: after assign(u, r) and revoke of that assignment, a further
\* assign(u, r) succeeds and reactivates the existing row: same assignment
\* id, active again, grantedBy / grantedAt updated, no row inserted.
C4_ReassignReactivates ==
    [][\A w \in Workers :
         LET old == RowsOf(user_roles, req[w].user_id, req[w].role_id) IN
         (Leaves(w, "assign_commit") /\ old # {} /\ \A ur \in old : ~ur.is_active)
             => /\ resp'.status = 200
                /\ Cardinality(user_roles') = Cardinality(user_roles)
                /\ \A ur \in old :
                     [ur EXCEPT !.is_active = TRUE, !.assigned_by = req[w].caller,
                                !.assigned_at = now] \in user_roles']_vars

C6_LoserGetsConflict ==
    [][\A w \in Workers :
         (Leaves(w, "assign_commit")
            /\ ActiveRowsOf(user_roles, req[w].user_id, req[w].role_id) # {})
             => /\ resp'.status = 400
                /\ resp'.detail = "User already has this role assigned"
                /\ Cardinality(ActiveRowsOf(user_roles', req[w].user_id, req[w].role_id)) = 1]_vars

\* C7: delete_role on a role that an active assignment references is
\* answered with the conflict "role in use" and changes no table.
C7_DeleteRoleInUseRejected ==
    [][\A w \in Workers :
         (Leaves(w, "delete_role_count")
            /\ \E ur \in user_roles : ur.role_id = req[w].role_id /\ ur.is_active)
             => /\ resp'.status = 400
                /\ resp'.detail = "Cannot delete role that is assigned to users"
                /\ resp'.op = "delete_role"
                /\ req'[w] = Idle
                /\ TablesUnchanged]_vars

\* a deletion was just refused while every assignment on file is active
C7_Witness ==
    /\ resp.op = "delete_role"
    /\ resp.status = 400
    /\ user_roles # {}
    /\ \A ur \in user_roles : ur.is_active

\* C8: once every assignment of a role has been removed through
\* remove_role_from_user, deleting the role is no longer refused.
C8_DeleteAfterRemoveSucceeds ==
    [][\A w \in Workers :
         LET rows == {ur \in user_roles : ur.role_id = req[w].role_id} IN
         (Leaves(w, "delete_role_count") /\ rows # {} /\ \A ur \in rows : ~ur.is_active)
             => resp'.status # 400]_vars

PermissionsOf(rows) ==
    UNION {roles[ur.role_id].permissions : ur \in {x \in rows : x.role_id \in DOMAIN roles}}

\* C9: the permissions an account is checked against are exactly the union
\* of the permission sets of the roles linked to it by active assignments.
C9_PermissionsFromActiveAssignments ==
    \A u \in DOMAIN users :
        user_permissions(u) = PermissionsOf({ur \in UserRoles(u) : ur.is_active})

\* C10: a role whose active flag is false contributes no permission to any
\* account, even through an active assignment.
C10_InactiveRoleGrantsNothing ==
    \A u \in DOMAIN users, perm \in {"read", "write", "delete"} :
        require_permissions(u, {perm})
            => \E ur \in UserRoles(u) :
                  /\ ur.role_id \in DOMAIN roles
                  /\ roles[ur.role_id].is_active
                  /\ perm \in roles[ur.role_id].permissions

\* C16: remove_role_from_user only sets the assignment's is_active to
\* false and never deletes a row; removing an assignment that is already
\* inactive is answered with success and leaves every table as it was.
C16_RevokeDeactivatesOnly ==
    [][\A w \in Workers :
         LET id == req[w].assignment_id
             target == {ur \in user_roles : ur.id = id}
         IN
         (req[w].op = "remove" /\ Leaves(w, "remove_commit"))
             => /\ UNCHANGED <<users, roles>>
                /\ {ur.id : ur \in user_roles'} = {ur.id : ur \in user_roles}
                /\ \A ur \in user_roles : ur.id # id => ur \in user_roles'
                /\ \A ur \in target : [ur EXCEPT !.is_active = FALSE] \in user_roles'
                /\ (target # {} /\ \A ur \in target : ~ur.is_active)
                     => (resp'.status = 200 /\ TablesUnchanged)]_vars

\* one removal of an assignment was answered with success and left the row
\* on file, inactive, while a second removal of the same assignment is
\* about to commit
C16_Witness ==
    /\ resp.op = "remove"
    /\ resp.status = 200
    /\ \E w \in Workers :
          /\ req[w].pc = "remove_commit"
          /\ \E ur \in user_roles : ur.id = req[w].assignment_id /\ ~ur.is_active

\* C17: deleting an account removes every assignment row that references
\* it, active or not, and nothing else: the roles table and the assignment
\* rows of every other account are as before.
C17_DeleteUserCascades ==
    [][\A w \in Workers :
         LET u == req[w].user_id IN
         (req[w].op = "delete_user" /\ Leaves(w, "delete_user_commit"))
             => /\ resp'.status = 200
                /\ u \notin DOMAIN users'
                /\ \A x \in DOMAIN users \ {u} : x \in DOMAIN users' /\ users'[x] = users[x]
                /\ user_roles' = {ur \in user_roles : ur.user_id # u}
                /\ roles' = roles]_vars

\* an account that had been granted a role is gone, and so are its rows
C17_Witness ==
    /\ resp.op = "delete_user"
    /\ resp.status = 200
    /\ user_roles_seq > 1
    /\ \E u \in UserIds : u \notin DOMAIN users
    /\ \A ur \in user_roles : ur.user_id \in DOMAIN users

\* C18: assign_role_to_user whose query for the pair finds an active
\* assignment is answered with the conflict "User already has this role
\* assigned" and changes no table.
C18_AssignExistingRejected ==
    [][\A w \in Workers :
         (Leaves(w, "assign_existing")
            /\ ActiveRowsOf(user_roles, req[w].user_id, req[w].role_id) # {})
             => /\ resp'.status = 400
                /\ resp'.detail = "User already has this role assigned"
                /\ resp'.op = "assign"
                /\ req'[w] = Idle
                /\ TablesUnchanged]_vars

\* a second assign of a pair was just refused while the first is on file
C18_Witness ==
    /\ resp.op = "assign"
    /\ resp.status = 400
    /\ resp.detail = "User already has this role assigned"
    /\ \E ur \in user_roles : ur.is_active

\* the answer is a conflict error, not a failure of the server
IsConflict(r) == r.status \in {400, 409}

\* C19: when the INSERT of assign_role_to_user, create_role or
\* register_user violates a uniqueness or foreign-key constraint of its
\* table, the caller is answered with a conflict error; no storage
\* exception reaches the caller.
C19_ViolationsBecomeConflicts ==
    [][\A w \in Workers :
         (\/ /\ Leaves(w, "assign_commit")
              /\ \/ UniqueViolation(user_roles, req[w].user_id, req[w].role_id)
                 \/ ForeignKeyViolation(req[w].user_id, req[w].role_id)
          \/ Leaves(w, "create_role_commit") /\ NameTaken(req[w].name, 0)
          \/ Leaves(w, "register_commit") /\ EmailTaken(req[w].email))
             => /\ IsConflict(resp')
                /\ resp'.detail \notin {"IntegrityError", "Registration failed: IntegrityError"}]_vars

\* equal ignoring letter case
SameNameIgnoringCase(a, b) == Lower(a) = Lower(b)

\* C20: create_role whose query runs while a role with the same name,
\* ignoring letter case, is on file is answered with the conflict "Role
\* already exists" and adds no role; create_role whose INSERT runs with no
\* such role on file succeeds and adds the role.
C20_RoleNameUniqueIgnoringCase ==
    [][\A w \in Workers :
         LET clash == \E id \in DOMAIN roles : SameNameIgnoringCase(roles[id].name, req[w].name) IN
         /\ (Leaves(w, "create_role_check") /\ clash)
               => /\ resp'.status = 400
                  /\ resp'.detail = "Role already exists"
                  /\ req'[w] = Idle
                  /\ TablesUnchanged
         /\ (Leaves(w, "create_role_commit") /\ ~clash)
               => /\ resp'.status = 201
                  /\ DOMAIN roles' = DOMAIN roles \cup {roles_seq}
                  /\ roles'[roles_seq].name = req[w].name
                  /\ \A id \in DOMAIN roles : roles'[id] = roles[id]]_vars

\* a role was created through the handler and a further create_role was
\* refused as a duplicate
C20_Witness ==
    /\ resp.op = "create_role"
    /\ resp.status = 400
    /\ \E id \in DOMAIN roles : id >= 3

\* C21: register_user for an email that an account on file already holds
\* is answered with a conflict error, and the users table is unchanged.
C21_DuplicateEmailConflict ==
    [][\A w \in Workers :
         (req[w].op = "register" /\ req'[w] = Idle /\ EmailTaken(req[w].email))
             => /\ IsConflict(resp')
                /\ users' = users]_vars


\* C22: an update_role that carries a permissions list P and succeeds leaves
\* the role with exactly P: nothing of P is missing and no permission the
\* role had before survives unless it is in P.
C22_UpdateReplacesPermissions ==
    [][\A w \in Workers :
         (/\ Leaves(w, "update_role_commit")
          /\ req[w].update_data.has_permissions
          /\ resp'.status = 200)
             => /\ req[w].role_id \in DOMAIN roles'
                /\ roles'[req[w].role_id].permissions = req[w].update_data.permissions]_vars

\* role 1, created with read and write, has lost write to an update
C22_Witness ==
    /\ resp.op = "update_role"
    /\ resp.status = 200
    /\ 1 \in DOMAIN roles
    /\ roles[1].permissions = {"read"}


\* an active assignment links the account to an active role named admin
HoldsAdminGrant(u) ==
    \E ur \in user_roles :
        /\ ur.user_id = u
        /\ ur.is_active
        /\ ur.role_id \in DOMAIN roles
        /\ roles[ur.role_id].is_active
        /\ roles[ur.role_id].name = "admin"

RoleManagement == {"create_role", "update_role", "delete_role", "assign", "remove"}

\* the handler's current_user is neither a superuser nor a holder of admin
Unprivileged(caller) == caller = NoUser \/ Denied(caller)

\* a request of that caller reaches its handler in this step: it is answered
\* by its first step, or admitted to its first query
Arrives(caller) ==
    \/ /\ req' = req
       /\ resp' # resp
       /\ resp'.caller = caller
       /\ resp'.op \in RoleManagement
    \/ \E w \in Workers :
           /\ req[w].pc = "idle"
           /\ req'[w].pc # "idle"
           /\ req'[w].caller = caller
           /\ req'[w].op \in RoleManagement

\* C24: a role-management request whose caller is neither superuser nor
\* holder of the admin role is answered with 403 and changes no table.
C24_UnprivilegedForbidden ==
    [][\A caller \in Callers :
         (Unprivileged(caller) /\ Arrives(caller))
             => /\ resp'.status = 403
                /\ TablesUnchanged]_vars


\* C25: when the gate's verification of the access token succeeds, the
\* request reaches the handler with the subject's account id and effective
\* permissions attached to request.state; when verification fails, nothing
\* is attached.
C25_GateAttachesPrincipal ==
    (gate # NoGate /\ ~_should_skip_auth(excluded, gate.path))
        => IF gate.called_next
           THEN /\ gate.user_id # None
                /\ {"user_id", "permissions"} \subseteq gate.state_attrs
           ELSE /\ gate.user_id = None
                /\ gate.state_attrs = {}


\* the gate has answered the request itself
GateRefused == gate # NoGate /\ ~gate.called_next

C27_AssignNotFound ==
    [][\A w \in Workers :
         /\ \A caller \in Callers, u \in UserIds, r \in RoleIds :
                (AssignRequest(w, caller, u, r) /\ Passes(caller) /\ u \notin DOMAIN users)
                    => /\ resp'.status = 404
                       /\ req'[w] = Idle
                       /\ UNCHANGED <<user_roles, user_roles_seq>>
         /\ (Leaves(w, "assign_role") /\ req[w].role_id \notin DOMAIN roles)
                => /\ resp'.status = 404
                   /\ req'[w] = Idle
                   /\ UNCHANGED <<user_roles, user_roles_seq>>]_vars

\* an assign for a deleted account has been answered
C27_Witness ==
    /\ resp.op = "assign"
    /\ resp.status = 404
    /\ resp.detail = "User not found"
    /\ DOMAIN users # UserIds


\* C28: in every reachable state, whatever the interleaving of a role or
\* account deletion with a concurrent assign, every assignment row
\* references an account and a role that are on file: a deletion takes all
\* rows of the deleted role or account with it in the same step.
C28_NoDanglingAssignment ==
    \A ur \in user_roles :
        /\ ur.user_id \in DOMAIN users
        /\ ur.role_id \in DOMAIN roles

\* an assign stands at its INSERT while its role or its account has been
\* deleted under it
C28_Witness ==
    \E w \in Workers :
        /\ req[w].op = "assign"
        /\ req[w].pc = "assign_commit"
        /\ \/ req[w].role_id \notin DOMAIN roles
           \/ req[w].user_id \notin DOMAIN users


\* worker w's password request is answered with success in this step
PasswordSet(w) ==
    /\ req[w].op \in {"change_password", "confirm_password_reset"}
    /\ req[w].pc # "idle"
    /\ req'[w] = Idle
    /\ resp'.status = 200

\* C29: after a successful password change the hashed_password column holds
\* the hash of the new password, as get_password_hash produces it, never the
\* new password itself, so that the new password verifies against it.
C29_PasswordChangeStoresHash ==
    [][\A w \in Workers :
         PasswordSet(w)
             => LET stored == users'[req[w].user_id].hashed_password IN
                /\ stored = get_password_hash(req[w].new_password)
                /\ stored # AsStored(req[w].new_password)
                /\ verify_password(req[w].new_password, stored)]_vars


\* the verifier has just been run on an access token signed with the server key
SignedAccessVerified ==
    /\ ver.kind = "access"
    /\ ver.token.form = "jwt"
    /\ ver.token.key = SecretKey
    /\ ver.token.type = "access"

\* C30: for every correctly signed access token and every time,
\* is_token_expired is true exactly when verify_access_token rejects the
\* token for expiry at that time.
C30_ExpiryHelperAgreesWithVerifier ==
    SignedAccessVerified
        => (is_token_expired(ver.token, ver.at, tz) <=> ver.log = "expired")

====
